---- MODULE Spec2Model ----
(***************************************************************************)
(* Model of xhs_manusCrawlerComments.py: the comment-API response handler  *)
(* (filter, parser, dedup merge, persistence) running as cooperative       *)
(* asyncio tasks over the module-level dictionaries.                       *)
(***************************************************************************)
EXTENDS Integers, Sequences, FiniteSets, TLC

VARIABLES
    all_comments_data,   \* note_id -> nested comment list        (line 74)
    all_comments_flat,   \* note_id -> flat comment list          (line 77)
    data_keys,           \* insertion order of the keys of the two dicts
    note_id_to_title,    \* note_id -> page title                 (line 83)
    note_id_to_page,     \* note_ids that have a registered page  (line 86)
    note_id_to_index,    \* note_id -> file ordinal               (line 89)
    task,                \* one handler task per received response
    json_done,           \* handlers whose response.json() completed, oldest first
    files,               \* DataFile directory: file name -> content
    parse_call,          \* one call of parse_comment_response: arguments, result
    unwritable,          \* the write targets whose open(..., 'w') raises
    main                 \* the position of main()

vars == <<all_comments_data, all_comments_flat, data_keys, note_id_to_title,
          note_id_to_page, note_id_to_index, task, json_done, files, parse_call,
          unwritable, main>>

-----------------------------------------------------------------------------
(* Bounds *)

MaxEvents == 2       \* responses received in one run

NoteIds == {"n1", "n2"}

\* comment identifiers: of top-level entries and of reply entries; "b" is both
TopIds == {"a", "b"}
ReplyIds == {"b", "c"}

-----------------------------------------------------------------------------
(* Python helpers *)

\* dict.get(key, default)
Get(d, k, default) == IF k \in DOMAIN d THEN d[k] ELSE default

\* a JSON value that is not a mapping (null, a string, a number)
JsonNull == [json_null |-> TRUE]

Range(s) == {s[i] : i \in DOMAIN s}

-----------------------------------------------------------------------------
(* parse_comment_response *)

\* comment.get('user_info', {}).get('nickname', '') raises AttributeError
\* when user_info is present and is not a mapping
NicknameRaises(c) == "user_info" \in DOMAIN c /\ c.user_info = JsonNull

Nickname(c) == Get(Get(c, "user_info", <<>>), "nickname", "")

\* lines 173-180
comment_data(c, subs) ==
    [content |-> Get(c, "content", ""),
     like_count |-> Get(c, "like_count", "0"),
     ip_location |-> Get(c, "ip_location", ""),
     nickname |-> Nickname(c),
     comment_id |-> Get(c, "id", ""),
     sub_comments |-> subs]

\* lines 183-192
flat_comment(c, note_id) ==
    [content |-> Get(c, "content", ""),
     like_count |-> Get(c, "like_count", "0"),
     ip_location |-> Get(c, "ip_location", ""),
     nickname |-> Nickname(c),
     note_id |-> note_id,
     comment_id |-> Get(c, "id", ""),
     parent_comment_id |-> "",
     is_sub_comment |-> FALSE]

\* lines 199-205
sub_comment_data(sc) ==
    [content |-> Get(sc, "content", ""),
     like_count |-> Get(sc, "like_count", "0"),
     ip_location |-> Get(sc, "ip_location", ""),
     nickname |-> Nickname(sc),
     comment_id |-> Get(sc, "id", "")]

\* lines 209-218
flat_sub_comment(sc, c, note_id) ==
    [content |-> Get(sc, "content", ""),
     like_count |-> Get(sc, "like_count", "0"),
     ip_location |-> Get(sc, "ip_location", ""),
     nickname |-> Nickname(sc),
     note_id |-> note_id,
     comment_id |-> Get(sc, "id", ""),
     parent_comment_id |-> Get(c, "id", ""),
     is_sub_comment |-> TRUE]

\* the inner loop, lines 197-219: from reply j on; raised = an exception
\* left the loop body
RECURSIVE parse_sub_comments(_, _, _, _, _)
parse_sub_comments(c, note_id, j, subs, flat) ==
    LET sub_comments == Get(c, "sub_comments", <<>>) IN
    IF j > Len(sub_comments)
    THEN [raised |-> FALSE, subs |-> subs, flat |-> flat]
    ELSE LET sc == sub_comments[j] IN
         IF NicknameRaises(sc)
         THEN [raised |-> TRUE, subs |-> subs, flat |-> flat]
         ELSE parse_sub_comments(c, note_id, j + 1,
                                 Append(subs, sub_comment_data(sc)),
                                 Append(flat, flat_sub_comment(sc, c, note_id)))

\* the outer loop, lines 171-221: from entry i on; an exception ends the
\* loop and the lists built so far are returned (lines 227-230)
RECURSIVE parse_comments(_, _, _, _, _)
parse_comments(comments_list, note_id, i, nested, flat) ==
    IF i > Len(comments_list)
    THEN <<nested, flat>>
    ELSE LET c == comments_list[i] IN
         IF NicknameRaises(c)
         THEN <<nested, flat>>
         ELSE LET r == parse_sub_comments(c, note_id, 1, <<>>,
                                          Append(flat, flat_comment(c, note_id)))
              IN IF r.raised
                 THEN <<nested, r.flat>>
                 ELSE parse_comments(comments_list, note_id, i + 1,
                                     Append(nested, comment_data(c, r.subs)),
                                     r.flat)

\* parse_comment_response with the test of 'code' at line 165 left out
parse_comment_response_any_code(response_data, note_id) ==
    IF ~Get(response_data, "success", FALSE)
    THEN <<<<>>, <<>>>>
    ELSE parse_comments(Get(Get(response_data, "data", <<>>), "comments", <<>>),
                        note_id, 1, <<>>, <<>>)

\* lines 156-230; returns <<nested_comments, flat_comments>>
\* (a missing 'code' is None, which differs from 0: -1 stands for it)
parse_comment_response(response_data, note_id) ==
    IF ~Get(response_data, "success", FALSE) \/ Get(response_data, "code", -1) # 0
    THEN <<<<>>, <<>>>>
    ELSE parse_comments(Get(Get(response_data, "data", <<>>), "comments", <<>>),
                        note_id, 1, <<>>, <<>>)

-----------------------------------------------------------------------------
(* handle_comment_api_response: the dedup merge, lines 259-304 *)

\* existing_nested_ids with the loop of lines 268-271 left out
existing_nested_ids_unset(comments) == {}

\* lines 267-271
existing_nested_ids(comments) ==
    {c.comment_id : c \in Range(comments)}
        \cup UNION {{sc.comment_id : sc \in Range(c.sub_comments)} : c \in Range(comments)}

\* line 274
existing_flat_ids(flat) == {fc.comment_id : fc \in Range(flat)}

\* first_flat taking the last match of the batch
first_flat_last(flat_comments, id, is_sub) ==
    LET hits == {k \in DOMAIN flat_comments :
                    /\ flat_comments[k].comment_id = id
                    /\ flat_comments[k].is_sub_comment = is_sub}
    IN IF hits = {} THEN <<>>
       ELSE <<flat_comments[CHOOSE k \in hits : \A m \in hits : k >= m]>>

\* next((fc for fc in flat_comments if fc['comment_id'] == id and
\*       is_sub_comment == is_sub), None), lines 287 and 297;
\* <<fc>> for the first match, <<>> for None
first_flat(flat_comments, id, is_sub) ==
    LET hits == {k \in DOMAIN flat_comments :
                    /\ flat_comments[k].comment_id = id
                    /\ flat_comments[k].is_sub_comment = is_sub}
    IN IF hits = {} THEN <<>>
       ELSE <<flat_comments[CHOOSE k \in hits : \A m \in hits : k <= m]>>

\* lines 288-290 and 298-300: accept the matching flat record unless None or
\* its comment_id is among the known flat ids
accept_flat(acc, found) ==
    IF found # <<>> /\ found[1].comment_id \notin acc.flat_ids
    THEN [acc EXCEPT !.new_flat = Append(@, found[1]),
                     !.flat_ids = @ \cup {found[1].comment_id}]
    ELSE acc

\* filter_sub_comments with lines 296-300 left out: a reply is marked as
\* known and its flat record is not looked up
RECURSIVE filter_sub_comments_unrecorded(_, _, _, _)
filter_sub_comments_unrecorded(subs, k, flat_comments, acc) ==
    IF k > Len(subs) THEN acc
    ELSE filter_sub_comments_unrecorded(subs, k + 1, flat_comments,
             [acc EXCEPT !.nested_ids = @ \cup {subs[k].comment_id}])

\* lines 293-300, from reply k of an accepted top-level comment on
RECURSIVE filter_sub_comments(_, _, _, _)
filter_sub_comments(subs, k, flat_comments, acc) ==
    IF k > Len(subs) THEN acc
    ELSE LET sub_c == subs[k] IN
         IF sub_c.comment_id \notin acc.nested_ids
         THEN filter_sub_comments(subs, k + 1, flat_comments,
                  accept_flat([acc EXCEPT !.nested_ids = @ \cup {sub_c.comment_id}],
                              first_flat(flat_comments, sub_c.comment_id, TRUE)))
         ELSE filter_sub_comments(subs, k + 1, flat_comments, acc)

\* filter_new_comments with the loop of lines 293-300 moved out of the test
\* of line 282: the replies of a known top-level comment are processed too
RECURSIVE filter_new_comments_keep_replies(_, _, _, _)
filter_new_comments_keep_replies(nested_comments, i, flat_comments, acc) ==
    IF i > Len(nested_comments) THEN acc
    ELSE LET nested_c == nested_comments[i]
             a2 == IF nested_c.comment_id \notin acc.nested_ids
                   THEN accept_flat([acc EXCEPT !.new_nested = Append(@, nested_c),
                                                !.nested_ids = @ \cup {nested_c.comment_id}],
                                    first_flat(flat_comments, nested_c.comment_id, FALSE))
                   ELSE acc
         IN filter_new_comments_keep_replies(nested_comments, i + 1, flat_comments,
                filter_sub_comments(nested_c.sub_comments, 1, flat_comments, a2))

\* filter_new_comments with line 284 left out: an accepted top-level
\* identifier is not marked as known
RECURSIVE filter_new_comments_unmarked(_, _, _, _)
filter_new_comments_unmarked(nested_comments, i, flat_comments, acc) ==
    IF i > Len(nested_comments) THEN acc
    ELSE LET nested_c == nested_comments[i] IN
         IF nested_c.comment_id \notin acc.nested_ids
         THEN LET a1 == [acc EXCEPT !.new_nested = Append(@, nested_c)]
                  a2 == accept_flat(a1, first_flat(flat_comments, nested_c.comment_id, FALSE))
              IN filter_new_comments_unmarked(nested_comments, i + 1, flat_comments,
                     filter_sub_comments(nested_c.sub_comments, 1, flat_comments, a2))
         ELSE filter_new_comments_unmarked(nested_comments, i + 1, flat_comments, acc)

RECURSIVE filter_new_comments(_, _, _, _)
filter_new_comments(nested_comments, i, flat_comments, acc) ==
    IF i > Len(nested_comments) THEN acc
    ELSE LET nested_c == nested_comments[i] IN
         IF nested_c.comment_id \notin acc.nested_ids
         THEN LET a1 == [acc EXCEPT !.new_nested = Append(@, nested_c),
                                    !.nested_ids = @ \cup {nested_c.comment_id}]
                  a2 == accept_flat(a1, first_flat(flat_comments, nested_c.comment_id, FALSE))
              IN filter_new_comments(nested_comments, i + 1, flat_comments,
                     filter_sub_comments(nested_c.sub_comments, 1, flat_comments, a2))
         ELSE filter_new_comments(nested_comments, i + 1, flat_comments, acc)

\* new_comments with the known identifiers of lines 267-274 left empty
new_comments_stale(old_nested, old_flat, nested_comments, flat_comments) ==
    filter_new_comments(nested_comments, 1, flat_comments,
        [nested_ids |-> {}, flat_ids |-> {}, new_nested |-> <<>>, new_flat |-> <<>>])

\* lines 266-300: the records of a parsed batch to append to an item's lists
new_comments(old_nested, old_flat, nested_comments, flat_comments) ==
    filter_new_comments(nested_comments, 1, flat_comments,
        [nested_ids |-> existing_nested_ids(old_nested),
         flat_ids |-> existing_flat_ids(old_flat),
         new_nested |-> <<>>,
         new_flat |-> <<>>])

\* merge_response with the new records put in front of the lists at lines
\* 303-304
merge_response_prepend(data, flat, keys, note_id, response_body) ==
    LET p == parse_comment_response(response_body, note_id)
        nested_comments == p[1]
        flat_comments == p[2]
    IN IF nested_comments = <<>> /\ flat_comments = <<>>
       THEN [data |-> data, flat |-> flat, keys |-> keys, outcome |-> "empty"]
       ELSE LET data1 == IF note_id \in DOMAIN data THEN data
                         ELSE data @@ (note_id :> <<>>)
                flat1 == IF note_id \in DOMAIN flat THEN flat
                         ELSE flat @@ (note_id :> <<>>)
                keys1 == IF note_id \in DOMAIN data THEN keys ELSE Append(keys, note_id)
                new == new_comments(data1[note_id], flat1[note_id],
                                    nested_comments, flat_comments)
            IN IF new.new_nested # <<>>
               THEN [data |-> [data1 EXCEPT ![note_id] = new.new_nested \o @],
                     flat |-> [flat1 EXCEPT ![note_id] = new.new_flat \o @],
                     keys |-> keys1, outcome |-> "appended"]
               ELSE [data |-> data1, flat |-> flat1, keys |-> keys1, outcome |-> "no_new"]

\* lines 257-304 as a function of the two dicts: the dicts after one response
\* body has been parsed and merged, and which way the handler went: "empty"
\* (line 259 false), "no_new" (line 302 false) or "appended"
merge_response(data, flat, keys, note_id, response_body) ==
    LET p == parse_comment_response(response_body, note_id)
        nested_comments == p[1]
        flat_comments == p[2]
    IN IF nested_comments = <<>> /\ flat_comments = <<>>
       THEN [data |-> data, flat |-> flat, keys |-> keys, outcome |-> "empty"]
       ELSE LET data1 == IF note_id \in DOMAIN data THEN data
                         ELSE data @@ (note_id :> <<>>)
                flat1 == IF note_id \in DOMAIN flat THEN flat
                         ELSE flat @@ (note_id :> <<>>)
                keys1 == IF note_id \in DOMAIN data THEN keys ELSE Append(keys, note_id)
                new == new_comments(data1[note_id], flat1[note_id],
                                    nested_comments, flat_comments)
            IN IF new.new_nested # <<>>
               THEN [data |-> [data1 EXCEPT ![note_id] = @ \o new.new_nested],
                     flat |-> [flat1 EXCEPT ![note_id] = @ \o new.new_flat],
                     keys |-> keys1, outcome |-> "appended"]
               ELSE [data |-> data1, flat |-> flat1, keys |-> keys1, outcome |-> "no_new"]

-----------------------------------------------------------------------------
(* Persistence: save_comments_to_file, save_all_comments_to_file *)

\* the characters of illegal_chars, line 415
IllegalChars == {"<", ">", ":", "\"", "/", "\\", "|", "?", "*"}

\* line 418
MaxFilenameLen == 200

\* lines 412-420; a file name is a sequence of characters
sanitize_filename(filename) ==
    LET replaced == [k \in DOMAIN filename |->
                        IF filename[k] \in IllegalChars THEN "_" ELSE filename[k]]
    IN IF Len(replaced) > MaxFilenameLen
       THEN SubSeq(replaced, 1, MaxFilenameLen)
       ELSE replaced

\* csv.DictWriter row with the fieldnames of lines 493-496
csv_row(fc) ==
    <<fc.content, fc.like_count, fc.ip_location, fc.nickname, fc.note_id,
      fc.comment_id, fc.parent_comment_id,
      IF fc.is_sub_comment THEN "True" ELSE "False">>

\* writer.writeheader(); writer.writerows(...)
csv_file(flat_comments) ==
    <<<<"content", "like_count", "ip_location", "nickname", "note_id",
        "comment_id", "parent_comment_id", "is_sub_comment">>>>
        \o [k \in DOMAIN flat_comments |-> csv_row(flat_comments[k])]

\* open(path, 'w') and write: creates or overwrites
write_file(fs, name, content) ==
    [f \in DOMAIN fs \cup {name} |-> IF f = name THEN content ELSE fs[f]]

\* the file names of lines 479-490: <<ordinal, title, note_id, extension>>
item_file(file_index, safe_title, note_id, ext) ==
    <<file_index, safe_title, note_id, ext>>

\* the fixed names of lines 526 and 531
all_file(ext) == <<0, <<"All CommentData">>, "", ext>>

\* write_item_files writing only for the notes that have a registered page
write_item_files_registered(s, note_id, title) ==
    LET page_title == IF title = <<>> THEN <<"note_", note_id>> ELSE title
        file_index == Get(s.index, note_id, 1)
        safe_title == sanitize_filename(page_title)
        flat_comments == Get(s.flat, note_id, <<>>)
        f1 == write_file(s.files, item_file(file_index, safe_title, note_id, "json"),
                         s.data[note_id])
    IN IF note_id \notin s.page THEN s
       ELSE [s EXCEPT !.files =
                IF flat_comments # <<>>
                THEN write_file(f1, item_file(file_index, safe_title, note_id, "csv"),
                                csv_file(flat_comments))
                ELSE f1]

\* lines 470-498: the two writes of save_comments_to_file once the title is
\* settled
write_item_files(s, note_id, title) ==
    LET page_title == IF title = <<>> THEN <<"note_", note_id>> ELSE title
        file_index == Get(s.index, note_id, 1)
        safe_title == sanitize_filename(page_title)
        flat_comments == Get(s.flat, note_id, <<>>)
        f1 == write_file(s.files, item_file(file_index, safe_title, note_id, "json"),
                         s.data[note_id])
    IN [s EXCEPT !.files =
            IF flat_comments # <<>>
            THEN write_file(f1, item_file(file_index, safe_title, note_id, "csv"),
                            csv_file(flat_comments))
            ELSE f1]

\* save_all_comments_to_file taking the items last created first
save_all_comments_to_file_reversed(s) ==
    LET n == Len(s.keys)
        concat[k \in 0..n] ==
            IF k = 0 THEN [nested |-> <<>>, flat |-> <<>>]
            ELSE [nested |-> concat[k - 1].nested \o s.data[s.keys[n + 1 - k]],
                  flat |-> concat[k - 1].flat \o s.flat[s.keys[n + 1 - k]]]
        all == concat[n]
    IN IF s.keys = <<>> \/ (all.nested = <<>> /\ all.flat = <<>>)
       THEN s
       ELSE LET f1 == write_file(s.files, all_file("json"), all.nested)
            IN [s EXCEPT !.files =
                    IF all.flat # <<>>
                    THEN write_file(f1, all_file("csv"), csv_file(all.flat))
                    ELSE f1]

\* lines 504-544
save_all_comments_to_file(s) ==
    LET concat[k \in 0..Len(s.keys)] ==
            IF k = 0 THEN [nested |-> <<>>, flat |-> <<>>]
            ELSE [nested |-> concat[k - 1].nested \o s.data[s.keys[k]],
                  flat |-> concat[k - 1].flat \o s.flat[s.keys[k]]]
        all == concat[Len(s.keys)]
    IN IF s.keys = <<>> \/ (all.nested = <<>> /\ all.flat = <<>>)
       THEN s
       ELSE LET f1 == write_file(s.files, all_file("json"), all.nested)
            IN [s EXCEPT !.files =
                    IF all.flat # <<>>
                    THEN write_file(f1, all_file("csv"), csv_file(all.flat))
                    ELSE f1]

-----------------------------------------------------------------------------
(* Inputs *)

Tasks == 1..MaxEvents

\* what may follow the lowercase-hexadecimal characters in the value of the
\* note_id parameter: nothing, or characters that are not lowercase
\* hexadecimal
UrlRests == {"", "G4"}

\* a response URL, as the filter of lines 236-247 reads it: whether it
\* contains COMMENT_API_PATTERN; the text that follows "note_id=" as far as
\* it matches [a-f0-9]+ ("" when nothing matches), which is group(1) of the
\* search of line 243; and the rest of the value of the parameter
UrlsOf(notes) == [comment_api : BOOLEAN, note_id : notes \cup {""}, rest : UrlRests]

\* reply entries and top-level entries of a response body: a top-level entry
\* carries no reply or one reply
SubEntries == [id : ReplyIds]
SubLists == {<<>>} \cup {<<sc>> : sc \in SubEntries}
Entries == [id : TopIds, sub_comments : SubLists]

SuccessBody(comments) == [success |-> TRUE, code |-> 0, data |-> [comments |-> comments]]

\* bodies the API reports as successful, with no, one or two top-level entries
GoodBodies ==
    {SuccessBody(<<>>)}
        \cup {SuccessBody(<<c>>) : c \in Entries}
        \cup {SuccessBody(<<c1, c2>>) : c1 \in Entries, c2 \in Entries}

\* bodies that carry comments but do not report success
BadBodies ==
    LET d == [comments |-> <<[id |-> "a", sub_comments |-> <<[id |-> "c"]>>]>>]
    IN {[success |-> FALSE, code |-> 0, data |-> d],
        [success |-> TRUE, code |-> 1, data |-> d],
        [code |-> 0, data |-> d],
        [success |-> TRUE, data |-> d]}

\* response.json() raised: the response is not JSON (lines 252-254)
NotJson == [not_json |-> TRUE]

\* entries whose extraction raises: user_info of the entry, or of its second
\* reply, is not a mapping
RaisingEntries ==
    {[id |-> t, user_info |-> JsonNull, sub_comments |-> <<>>] : t \in TopIds}
        \cup {[id |-> t, sub_comments |-> <<[id |-> "c"], [id |-> r, user_info |-> JsonNull]>>] :
                    t \in TopIds, r \in ReplyIds}

\* successful bodies whose last entry raises
RaisingBodies ==
    {SuccessBody(<<c>>) : c \in RaisingEntries}
        \cup {SuccessBody(<<c1, c2>>) : c1 \in Entries, c2 \in RaisingEntries}

Bodies == GoodBodies \cup BadBodies \cup RaisingBodies

\* successful bodies with one top-level entry
SmallBodies == {SuccessBody(<<c>>) : c \in Entries}

\* what page.title() gives for the page of a note
TitleOf(note_id) == <<"T", ":", note_id>>

\* get_page_title, lines 423-429: the title, or '' when page.title() raises
PageTitles(note_id) == {TitleOf(note_id), <<>>}

-----------------------------------------------------------------------------
(* The handler tasks *)

\* the module-level state as one record
State ==
    [data |-> all_comments_data, flat |-> all_comments_flat, keys |-> data_keys,
     title |-> note_id_to_title, page |-> note_id_to_page,
     index |-> note_id_to_index, files |-> files, task |-> task,
     unwritable |-> unwritable]

Install(s) ==
    /\ all_comments_data' = s.data
    /\ all_comments_flat' = s.flat
    /\ data_keys' = s.keys
    /\ note_id_to_title' = s.title
    /\ note_id_to_page' = s.page
    /\ note_id_to_index' = s.index
    /\ files' = s.files
    /\ task' = s.task

\* item_empty without the test of the empty list
item_empty_absent_only(s, note_id) == note_id \notin DOMAIN s.data

\* line 451: save_comments_to_file returns at once
item_empty(s, note_id) == note_id \notin DOMAIN s.data \/ s.data[note_id] = <<>>

\* line 461: no title is recorded and the note has a page, so that
\* save_comments_to_file awaits get_page_title at line 465 (the pages that
\* are registered are open)
needs_title(s, note_id) == Get(s.title, note_id, <<>>) = <<>> /\ note_id \in s.page

\* lines 486 and 492: open() raises for the files of an item that cannot be
\* written
raises_item(s, note_id) == note_id \in s.unwritable

\* lines 519 and 527: save_all_comments_to_file has records to write, and
\* open() raises
raises_all(s) ==
    /\ "all" \in s.unwritable
    /\ \E k \in DOMAIN s.keys : s.data[s.keys[k]] # <<>> \/ s.flat[s.keys[k]] # <<>>

\* finish_save with an exception of the write that is not caught in the
\* handler and ends every handler task
finish_save_fatal(s, h) ==
    IF raises_all(s)
    THEN [s EXCEPT !.task = [g \in DOMAIN @ |-> [@[g] EXCEPT !.pc = "failed"]]]
    ELSE [save_all_comments_to_file(s) EXCEPT !.task[h].pc = "saved"]

\* line 340: the aggregate write; an exception ends the handler at lines
\* 342-343
finish_save(s, h) ==
    IF raises_all(s)
    THEN [s EXCEPT !.task[h].pc = "failed"]
    ELSE [save_all_comments_to_file(s) EXCEPT !.task[h].pc = "saved"]

\* write_tail without the per-item write
write_tail_aggregate_only(s, h, page_title) == finish_save(s, h)

\* lines 470-498 of the call of line 339, then line 340; an exception of the
\* per-item write ends the handler at lines 342-343, before line 340
write_tail(s, h, page_title) ==
    IF raises_item(s, s.task[h].note_id)
    THEN [s EXCEPT !.task[h].pc = "failed"]
    ELSE finish_save(write_item_files(s, s.task[h].note_id, page_title), h)

\* lines 339-340, from the call of save_comments_to_file on: the per-item
\* write (awaiting the page title first when none is known and the note has a
\* page, lines 461-468), then the aggregate write
save_tail(s, h) ==
    LET note_id == s.task[h].note_id IN
    IF item_empty(s, note_id)
    THEN finish_save(s, h)
    ELSE IF needs_title(s, note_id)
    THEN [s EXCEPT !.task[h].pc = "save_title"]
    ELSE write_tail(s, h, Get(s.title, note_id, <<>>))

\* lines 308-340 after new records were appended. await: the page of the
\* response is open (line 313) and the title or the total count is not
\* recorded (line 309), so that the handler suspends in get_page_title when
\* no title is recorded (line 314) and in get_total_comment_count otherwise
after_append(s, h, await) ==
    IF await
    THEN IF s.task[h].note_id \notin DOMAIN s.title
         THEN [s EXCEPT !.task[h].pc = "title"]
         ELSE [s EXCEPT !.task[h].pc = "count"]
    ELSE save_tail(s, h)

\* lines 251-340, from the completion of response.json() to the next
\* suspension or the end of the handler
handle_body(s, h, response_body, await) ==
    IF response_body = NotJson
    THEN [s EXCEPT !.task[h].pc = "not_json"]
    ELSE LET r == merge_response(s.data, s.flat, s.keys, s.task[h].note_id,
                                 response_body)
             s1 == [s EXCEPT !.data = r.data, !.flat = r.flat, !.keys = r.keys]
         IN IF r.outcome = "appended"
            THEN after_append(s1, h, await)
            ELSE [s1 EXCEPT !.task[h].pc = r.outcome]

\* lines 236-247: the filter; a matching response starts awaiting its body
filter_response(url) ==
    IF ~url.comment_api \/ url.note_id = ""
    THEN [pc |-> "filtered", note_id |-> ""]
    ELSE [pc |-> "json", note_id |-> url.note_id]

\* context.on('response', response_handler), lines 549-552: each response
\* starts one handler task
ResponseEvent(url) ==
    /\ \E h \in Tasks :
        /\ task[h].pc = "none"
        /\ \A g \in Tasks : g < h => task[g].pc # "none"
        /\ task' = [task EXCEPT ![h] = filter_response(url)]
    /\ UNCHANGED <<all_comments_data, all_comments_flat, data_keys, note_id_to_title,
                   note_id_to_page, note_id_to_index, json_done, files, parse_call,
                   unwritable, main>>

\* the body of a response has been read: the future awaited at line 251
\* completes and the handler is queued to run
JsonDone(h) ==
    /\ task[h].pc = "json"
    /\ task' = [task EXCEPT ![h].pc = "ready"]
    /\ json_done' = Append(json_done, h)
    /\ UNCHANGED <<all_comments_data, all_comments_flat, data_keys, note_id_to_title,
                   note_id_to_page, note_id_to_index, files, parse_call,
                   unwritable, main>>

\* the queued tasks run last in, first out
next_ready_last(queue) == queue[Len(queue)]

\* the event loop runs the queued tasks first in, first out
next_ready(queue) == Head(queue)

\* the handler resumes after line 251 and runs to its next suspension
ResumeJson(response_body, await) ==
    /\ json_done # <<>>
    /\ LET h == next_ready(json_done) IN
        /\ Install(handle_body(State, h, response_body, await))
        /\ json_done' = SelectSeq(json_done, LAMBDA g : g # h)
    /\ UNCHANGED <<parse_call, unwritable, main>>

\* the handler resumes after get_page_title, lines 315-317, and goes on to
\* line 318; await: the total count is not recorded
ResumeTitle(h, title, await) ==
    /\ task[h].pc = "title"
    /\ LET s == IF title # <<>>
                THEN [State EXCEPT !.title =
                        [n \in DOMAIN @ \cup {task[h].note_id} |->
                            IF n = task[h].note_id THEN title ELSE @[n]]]
                ELSE State
       IN Install(IF await THEN [s EXCEPT !.task[h].pc = "count"]
                  ELSE save_tail(s, h))
    /\ UNCHANGED <<json_done, parse_call, unwritable, main>>

\* the handler resumes after get_total_comment_count, lines 319-321
ResumeCount(h) ==
    /\ task[h].pc = "count"
    /\ Install(save_tail(State, h))
    /\ UNCHANGED <<json_done, parse_call, unwritable, main>>

\* note_id_to_title[note_id] = title
set_title(s, note_id, title) ==
    [s EXCEPT !.title = [n \in DOMAIN @ \cup {note_id} |->
                            IF n = note_id THEN title ELSE @[n]]]

\* the handler resumes in save_comments_to_file after get_page_title, lines
\* 465-466, and goes on to the writes
ResumeSaveTitle(h, title) ==
    /\ task[h].pc = "save_title"
    /\ Install(write_tail(set_title(State, task[h].note_id, title), h, title))
    /\ UNCHANGED <<json_done, parse_call, unwritable, main>>

\* main() after setup_response_listener, line 722: about to open the URL
\* at index i of the list (lines 737-750); k, size: the item the final
\* flush is at, and the number of items when its loop began (line 798)
MainStart == [pc |-> "open", i |-> 0, k |-> 0, size |-> 0]

Init ==
    /\ all_comments_data = <<>>
    /\ all_comments_flat = <<>>
    /\ data_keys = <<>>
    /\ note_id_to_title = <<>>
    /\ note_id_to_page = {}
    /\ note_id_to_index = <<>>
    /\ task = [h \in Tasks |-> [pc |-> "none", note_id |-> ""]]
    /\ json_done = <<>>
    /\ files = <<>>
    /\ parse_call = <<>>
    /\ unwritable = {}
    /\ main = MainStart

-----------------------------------------------------------------------------
(* main: opening the links, the periodic save, the final flush *)

\* the URLs of the run, lines 650-662, each as the note_id that
\* extract_note_id_from_url finds in it
UrlList == <<"n1">>

\* lines 748-750 and 752-767: on to the next URL, or into the monitor loop
after_open(m) ==
    IF m.i + 1 = Len(UrlList)
    THEN [m EXCEPT !.pc = "sleep", !.i = @ + 1]
    ELSE [m EXCEPT !.pc = "open", !.i = @ + 1]

\* lines 470-498 of the call of line 594; an exception is caught at line 600
open_write(s, note_id, page_title) ==
    IF raises_item(s, note_id) THEN s ELSE write_item_files(s, note_id, page_title)

\* open_url_in_new_tab for the next URL, lines 556-602 and 738-750. opened:
\* the page opened and gave its title (lines 559-570); otherwise an
\* exception was caught at line 600 before anything was recorded
OpenUrl(opened, title) ==
    /\ main.pc = "open"
    /\ LET note_id == UrlList[main.i + 1]
           s1 == [set_title(State, note_id, title) EXCEPT
                    !.page = @ \cup {note_id},
                    !.index = [n \in DOMAIN @ \cup {note_id} |->
                                  IF n = note_id THEN main.i + 1 ELSE @[n]]]
       IN IF ~opened
          THEN Install(State) /\ main' = after_open(main)
          ELSE IF note_id \notin DOMAIN s1.data \/ item_empty(s1, note_id)
          THEN Install(s1) /\ main' = after_open(main)
          ELSE IF needs_title(s1, note_id)
          THEN Install(s1) /\ main' = [main EXCEPT !.pc = "open_title"]
          ELSE Install(open_write(s1, note_id, title)) /\ main' = after_open(main)
    /\ UNCHANGED <<json_done, parse_call, unwritable>>

\* save_comments_to_file, called at line 594, resumes after get_page_title
ResumeOpenTitle(title) ==
    /\ main.pc = "open_title"
    /\ LET note_id == UrlList[main.i + 1]
       IN Install(open_write(set_title(State, note_id, title), note_id, title))
    /\ main' = after_open(main)
    /\ UNCHANGED <<json_done, parse_call, unwritable>>

\* the task is cancelled while main opens the links: the exception leaves
\* open_url_in_new_tab and is caught at line 812
InterruptOpening ==
    /\ main.pc = "open"
    /\ main' = [main EXCEPT !.pc = "closing"]
    /\ UNCHANGED <<all_comments_data, all_comments_flat, data_keys, note_id_to_title,
                   note_id_to_page, note_id_to_index, task, json_done, files,
                   parse_call, unwritable>>

\* asyncio.sleep(2) of line 767 completes
TimerFires ==
    /\ main.pc = "sleep"
    /\ main' = [main EXCEPT !.pc = "tick"]
    /\ UNCHANGED <<all_comments_data, all_comments_flat, data_keys, note_id_to_title,
                   note_id_to_page, note_id_to_index, task, json_done, files,
                   parse_call, unwritable>>

\* lines 769-788 and back to line 767; an exception of the write leaves the
\* loop and the Live block and is caught at line 815
Tick ==
    /\ main.pc = "tick"
    /\ IF data_keys = <<>>
       THEN Install(State) /\ main' = [main EXCEPT !.pc = "sleep"]
       ELSE IF raises_all(State)
       THEN Install(State) /\ main' = [main EXCEPT !.pc = "error"]
       ELSE Install(save_all_comments_to_file(State))
                /\ main' = [main EXCEPT !.pc = "sleep"]
    /\ UNCHANGED <<json_done, parse_call, unwritable>>

\* the final flush, lines 798-800, from item k of the dict on, up to its
\* end or to the await of line 465: the state and the position of main. The
\* iterator of line 798 raises when the dict has grown since the loop began;
\* every exception is caught at line 807
RECURSIVE flush_from(_, _, _)
flush_from(s, m, k) ==
    IF Len(s.keys) # m.size
    THEN [s |-> s, m |-> [m EXCEPT !.pc = "closing"]]
    ELSE IF k > Len(s.keys)
    THEN [s |-> IF raises_all(s) THEN s ELSE save_all_comments_to_file(s),
          m |-> [m EXCEPT !.pc = "closing"]]
    ELSE LET note_id == s.keys[k] IN
         IF item_empty(s, note_id)
         THEN flush_from(s, m, k + 1)
         ELSE IF needs_title(s, note_id)
         THEN [s |-> s, m |-> [m EXCEPT !.pc = "flush_title", !.k = k]]
         ELSE IF raises_item(s, note_id)
         THEN [s |-> s, m |-> [m EXCEPT !.pc = "closing"]]
         ELSE flush_from(write_item_files(s, note_id, Get(s.title, note_id, <<>>)),
                         m, k + 1)

\* the task is cancelled in the sleep of line 767: lines 789-800
Interrupt ==
    /\ main.pc = "sleep"
    /\ LET m == [main EXCEPT !.size = Len(data_keys)]
           r == IF data_keys = <<>>
                THEN [s |-> State, m |-> [m EXCEPT !.pc = "closing"]]
                ELSE flush_from(State, m, 1)
       IN Install(r.s) /\ main' = r.m
    /\ UNCHANGED <<json_done, parse_call, unwritable>>

\* save_comments_to_file, called at line 799, resumes after get_page_title
ResumeFlushTitle(title) ==
    /\ main.pc = "flush_title"
    /\ LET note_id == data_keys[main.k]
           s1 == set_title(State, note_id, title)
           r == IF raises_item(s1, note_id)
                THEN [s |-> s1, m |-> [main EXCEPT !.pc = "closing"]]
                ELSE flush_from(write_item_files(s1, note_id, title), main, main.k + 1)
       IN Install(r.s) /\ main' = r.m
    /\ UNCHANGED <<json_done, parse_call, unwritable>>

\* lines 820-827: the browser is closed and main returns; the run is over
Close ==
    /\ main.pc \in {"closing", "error"}
    /\ main' = [main EXCEPT !.pc = "closed"]
    /\ UNCHANGED <<all_comments_data, all_comments_flat, data_keys, note_id_to_title,
                   note_id_to_page, note_id_to_index, task, json_done, files,
                   parse_call, unwritable>>

\* the steps of main
Main ==
    \/ /\ main.pc = "open"
       /\ \E opened \in BOOLEAN : \E title \in PageTitles(UrlList[main.i + 1]) :
                OpenUrl(opened, title)
    \/ /\ main.pc = "open_title"
       /\ \E title \in PageTitles(UrlList[main.i + 1]) : ResumeOpenTitle(title)
    \/ InterruptOpening
    \/ TimerFires
    \/ Tick
    \/ Interrupt
    \/ /\ main.pc = "flush_title"
       /\ \E title \in PageTitles(data_keys[main.k]) : ResumeFlushTitle(title)
    \/ Close

\* the handler tasks, whatever the responses
Handlers(urls, bodies) ==
    \/ \E url \in urls : ResponseEvent(url)
    \/ \E h \in Tasks : JsonDone(h)
    \/ \E b \in bodies, await \in BOOLEAN : ResumeJson(b, await)
    \/ \E h \in Tasks, await \in BOOLEAN :
            \E title \in PageTitles(task[h].note_id) : ResumeTitle(h, title, await)
    \/ \E h \in Tasks : ResumeCount(h)

\* the responses of one note, with every body
Next == Handlers(UrlsOf({"n1"}), Bodies \cup {NotJson})

Spec == Init /\ [][Next]_vars

\* the responses of all notes, with one-entry bodies
NextAsync == Handlers(UrlsOf(NoteIds), SmallBodies \cup {NotJson})

SpecAsync == Init /\ [][NextAsync]_vars

\* the write targets that may fail in a run: the files of an item, the
\* aggregate files
WriteTargets == {"n1", "all"}

\* the bodies of a run: one new top-level comment, one with a reply, and one
\* whose parse aborts in the first reply
RunBodies ==
    {SuccessBody(<<[id |-> "a", sub_comments |-> <<>>]>>),
     SuccessBody(<<[id |-> "b", sub_comments |-> <<[id |-> "c"]>>]>>),
     SuccessBody(<<[id |-> "a", sub_comments |-> <<[id |-> "c", user_info |-> JsonNull]>>]>>)}

InitRun ==
    /\ all_comments_data = <<>>
    /\ all_comments_flat = <<>>
    /\ data_keys = <<>>
    /\ note_id_to_title = <<>>
    /\ note_id_to_page = {}
    /\ note_id_to_index = <<>>
    /\ task = [h \in Tasks |-> [pc |-> "none", note_id |-> ""]]
    /\ json_done = <<>>
    /\ files = <<>>
    /\ parse_call = <<>>
    /\ unwritable \in SUBSET WriteTargets
    /\ main = MainStart

\* the handler tasks of a run; their lookups of the title and of the total
\* count, lines 309-336, do not suspend. Once main has returned, the tasks
\* that remain are cancelled: a handler that awaits its body returns at
\* lines 253-255 without merging, while a handler that awaits the title at
\* line 465 goes on and writes, as the bare except of line 428 takes the
\* cancellation for a failure of page.title()
RunHandlers(notes, bodies) ==
    \/ main.pc # "closed" /\ \E url \in UrlsOf(notes) : ResponseEvent(url)
    \/ main.pc # "closed" /\ \E h \in Tasks : JsonDone(h)
    \/ main.pc # "closed" /\ \E b \in bodies : ResumeJson(b, FALSE)
    \/ \E h \in Tasks : \E title \in PageTitles(task[h].note_id) :
            ResumeSaveTitle(h, title)

\* a whole run: main and the handler tasks
NextRun == RunHandlers(NoteIds, RunBodies) \/ Main

SpecRun == InitRun /\ [][NextRun]_vars

\* the bodies of a run without failures: one new top-level comment, and
\* one with a reply
LiveBodies ==
    {SuccessBody(<<[id |-> "a", sub_comments |-> <<>>]>>),
     SuccessBody(<<[id |-> "b", sub_comments |-> <<[id |-> "c"]>>]>>)}

\* a run with the responses of the note of the link
NextLive == RunHandlers({"n1"}, LiveBodies) \/ Main

\* the await of line 465 completes and the handler of task h runs on to the
\* end of its writes: the step of ResumeSaveTitle as task h takes it
TitleResumes(h) ==
    /\ task[h].pc = "save_title"
    /\ \E pc \in {"saved", "failed"} : task' = [task EXCEPT ![h].pc = pc]

\* a run in which no write fails, the event loop resumes every handler
\* whose await completes, the timer of line 767 fires and main runs after
\* it
SpecLive ==
    /\ Init
    /\ [][NextLive]_vars
    /\ \A h \in Tasks : WF_task(TitleResumes(h))
    /\ WF_vars(TimerFires)
    /\ WF_vars(Tick)

-----------------------------------------------------------------------------
(* parse_comment_response on its own *)

ParseSubEntries ==
    {[id |-> "b"],
     [id |-> "c", content |-> "reply", like_count |-> "3", ip_location |-> "X",
      user_info |-> [nickname |-> "u"]],
     [id |-> "c", user_info |-> JsonNull],
     [content |-> "x"]}

ParseSubLists ==
    {<<>>} \cup {<<sc>> : sc \in ParseSubEntries}
        \cup {<<sc1, sc2>> : sc1 \in ParseSubEntries, sc2 \in ParseSubEntries}

ParseEntries ==
    {[id |-> "a", sub_comments |-> sl] : sl \in ParseSubLists}
        \cup {[id |-> "b", content |-> "hi", like_count |-> "7", ip_location |-> "Y",
               user_info |-> [nickname |-> "v"], sub_comments |-> sl] : sl \in ParseSubLists}
        \cup {[id |-> "a", user_info |-> JsonNull, sub_comments |-> sl] : sl \in ParseSubLists}
        \cup {[id |-> "b"]}

ParseBodies ==
    {SuccessBody(<<>>)}
        \cup {SuccessBody(<<c>>) : c \in ParseEntries}
        \cup {SuccessBody(<<c1, c2>>) : c1 \in ParseEntries, c2 \in ParseEntries}
        \cup BadBodies

InitParse ==
    /\ all_comments_data = <<>>
    /\ all_comments_flat = <<>>
    /\ data_keys = <<>>
    /\ note_id_to_title = <<>>
    /\ note_id_to_page = {}
    /\ note_id_to_index = <<>>
    /\ task = [h \in Tasks |-> [pc |-> "none", note_id |-> ""]]
    /\ json_done = <<>>
    /\ files = <<>>
    /\ parse_call \in [pc : {"call"}, response_data : ParseBodies, note_id : NoteIds]
    /\ unwritable = {}
    /\ main = MainStart

\* line 257: the call returns
ParseReturn ==
    /\ parse_call.pc = "call"
    /\ LET p == parse_comment_response(parse_call.response_data, parse_call.note_id)
       IN parse_call' = [pc |-> "return",
                         response_data |-> parse_call.response_data,
                         note_id |-> parse_call.note_id,
                         nested |-> p[1], flat |-> p[2]]
    /\ UNCHANGED <<all_comments_data, all_comments_flat, data_keys, note_id_to_title,
                   note_id_to_page, note_id_to_index, task, json_done, files,
                   unwritable, main>>

NextParse == ParseReturn

SpecParse == InitParse /\ [][NextParse]_vars

-----------------------------------------------------------------------------
(* Properties *)

\* identifiers of a nested list (top-level and replies) and of a flat list
IdsOfNested(comments) ==
    UNION {{comments[k].comment_id}
              \cup {comments[k].sub_comments[j].comment_id :
                        j \in DOMAIN comments[k].sub_comments} : k \in DOMAIN comments}

IdsOfFlat(flat) == {flat[k].comment_id : k \in DOMAIN flat}

\* positions of a nested list: <<k, 0>> the k-th top-level comment, <<k, j>>
\* its j-th reply
NestedPositions(comments) ==
    UNION {{<<k, 0>>} \cup {<<k, j>> : j \in DOMAIN comments[k].sub_comments} :
              k \in DOMAIN comments}

IdAt(comments, pos) ==
    IF pos[2] = 0 THEN comments[pos[1]].comment_id
    ELSE comments[pos[1]].sub_comments[pos[2]].comment_id

\* s is a prefix of t
IsPrefix(s, t) == Len(s) <= Len(t) /\ SubSeq(t, 1, Len(s)) = s

\* the records a list gained
Suffix(old, new) == SubSeq(new, Len(old) + 1, Len(new))

\* the item lists now, and after the merge of one more body
NestedOf(note_id) == Get(all_comments_data, note_id, <<>>)
FlatOf(note_id) == Get(all_comments_flat, note_id, <<>>)
Merged(note_id, body) ==
    merge_response(all_comments_data, all_comments_flat, data_keys, note_id, body)

\* the notes of the handlers that are queued to parse and merge a body
ReadyNotes == {task[h].note_id : h \in {g \in Tasks : task[g].pc = "ready"}}

\* the handler of task h has parsed and merged its body
HasMerged(h) ==
    task[h].pc \in {"empty", "no_new", "title", "count", "save_title", "saved", "failed"}

\* C1: for every item, the identifiers of the flat list are the identifiers
\* of the nested list (top-level and replies)
C1_Consistency ==
    /\ DOMAIN all_comments_data = DOMAIN all_comments_flat
    /\ \A n \in DOMAIN all_comments_data :
            IdsOfNested(all_comments_data[n]) = IdsOfFlat(all_comments_flat[n])

\* two batches were merged for one item, with an identifier of the second
\* known from the first
C1_Witness ==
    /\ task[1].pc = "saved" /\ task[2].pc = "saved"
    /\ \E n \in DOMAIN all_comments_data :
            Cardinality(NestedPositions(all_comments_data[n]))
                > Len(all_comments_flat[n])

\* C2: no identifier occurs twice in a flat list, and no identifier occurs
\* twice in a nested list, top-level and reply positions together
C2_NoDuplicateIds ==
    \A n \in DOMAIN all_comments_data :
        /\ \A k, m \in DOMAIN all_comments_flat[n] :
                all_comments_flat[n][k].comment_id = all_comments_flat[n][m].comment_id
                    => k = m
        /\ \A p, q \in NestedPositions(all_comments_data[n]) :
                IdAt(all_comments_data[n], p) = IdAt(all_comments_data[n], q) => p = q

\* C3: whenever a handler is queued to merge, whatever body it merges,
\* merging the body twice in a row gives the lists that merging it once
\* gives
C3_Idempotent ==
    \A n \in ReadyNotes, b \in Bodies :
        LET once == Merged(n, b)
            twice == merge_response(once.data, once.flat, once.keys, n, b)
        IN /\ twice.data = once.data
           /\ twice.flat = once.flat
           /\ twice.keys = once.keys
           /\ twice.outcome # "appended"

\* a handler is queued to merge into an item that has records, and a body
\* that repeats an identifier would append records
C3_Witness ==
    /\ task[1].pc = "saved" /\ task[2].pc = "ready"
    /\ NestedOf(task[2].note_id) # <<>>
    /\ \E b \in GoodBodies :
            /\ Len(b.data.comments) = 2
            /\ b.data.comments[1].id = b.data.comments[2].id
            /\ Merged(task[2].note_id, b).outcome = "appended"

\* the top-level entries of a parsed batch whose identifier the item knows
KnownEntries(note_id, nested_comments) ==
    {i \in DOMAIN nested_comments :
        nested_comments[i].comment_id \in IdsOfNested(NestedOf(note_id))}

\* the replies, unknown to the item, of the entries of a parsed batch whose
\* top-level comment the item has accepted: <<parent id, reply id>>
OrphanReplies(note_id, nested_comments) ==
    UNION {{<<nested_comments[i].comment_id, nested_comments[i].sub_comments[j].comment_id>> :
                j \in {j \in DOMAIN nested_comments[i].sub_comments :
                          nested_comments[i].sub_comments[j].comment_id
                              \notin IdsOfNested(NestedOf(note_id))}} :
            i \in {i \in DOMAIN nested_comments :
                      \E k \in DOMAIN NestedOf(note_id) :
                          NestedOf(note_id)[k].comment_id = nested_comments[i].comment_id}}

C5_SkipWholeParent ==
    \A n \in ReadyNotes \cap DOMAIN all_comments_data, b \in Bodies :
        LET after == Merged(n, b)
            nested_comments == parse_comment_response(b, n)[1]
            new_nested == Suffix(all_comments_data[n], after.data[n])
            new_flat == Suffix(all_comments_flat[n], after.flat[n])
        IN /\ \A i \in KnownEntries(n, nested_comments) :
                /\ \A k \in DOMAIN new_nested :
                        new_nested[k].comment_id # nested_comments[i].comment_id
                /\ \A k \in DOMAIN new_flat :
                        /\ new_flat[k].comment_id # nested_comments[i].comment_id
                        /\ new_flat[k].parent_comment_id # nested_comments[i].comment_id
           /\ \A k \in DOMAIN new_flat :
                new_flat[k].is_sub_comment
                    => \E m \in DOMAIN new_nested :
                            new_nested[m].comment_id = new_flat[k].parent_comment_id

\* C6: a step leaves every item's nested list and flat list as prefixes of
\* the new ones
C6_AppendOnly ==
    [][\A n \in DOMAIN all_comments_data :
            /\ n \in DOMAIN all_comments_data'
            /\ n \in DOMAIN all_comments_flat'
            /\ IsPrefix(all_comments_data[n], all_comments_data'[n])
            /\ IsPrefix(all_comments_flat[n], all_comments_flat'[n])]_vars

\* two batches appended records to one item, one after the other
C6_Witness ==
    /\ task[1].pc = "saved" /\ task[2].pc = "saved"
    /\ task[1].note_id = task[2].note_id
    /\ Len(NestedOf("n1")) >= 2

C8_AtomicMerge ==
    [][/\ Cardinality({h \in Tasks : task'[h] # task[h]}) <= 1
       /\ \A n \in DOMAIN all_comments_flat' :
            LET new_flat == Suffix(FlatOf(n), all_comments_flat'[n]) IN
            /\ IsPrefix(FlatOf(n), all_comments_flat'[n])
            /\ \A k \in DOMAIN new_flat :
                    /\ new_flat[k].comment_id \notin IdsOfFlat(FlatOf(n))
                    /\ \A m \in DOMAIN new_flat :
                            new_flat[m].comment_id = new_flat[k].comment_id => m = k
            /\ IdsOfNested(all_comments_data'[n]) = IdsOfFlat(all_comments_flat'[n])]_vars

\* two handlers of one item have appended records and are both suspended
\* before their writes
C8_Witness ==
    /\ task[1].note_id = task[2].note_id
    /\ task[1].pc \in {"title", "count"}
    /\ task[2].pc \in {"title", "count"}
    /\ Len(FlatOf(task[1].note_id)) >= 2

\* a body without a truthy success flag or with a status code other than 0
Unsuccessful(b) ==
    ~(/\ "success" \in DOMAIN b /\ b.success = TRUE
      /\ "code" \in DOMAIN b /\ b.code = 0)

\* C9: the parser returns two empty lists for an unsuccessful body, and the
\* handler of such a body changes no dict and writes no file
C9_UnsuccessfulIgnored ==
    \A b \in Bodies :
        Unsuccessful(b) =>
            /\ \A n \in NoteIds :
                /\ parse_comment_response(b, n) = <<<<>>, <<>>>>
                /\ Merged(n, b).data = all_comments_data
                /\ Merged(n, b).flat = all_comments_flat
                /\ Merged(n, b).keys = data_keys
            /\ \A h \in Tasks, await \in BOOLEAN :
                task[h].pc = "ready" =>
                    LET s == handle_body(State, h, b, await) IN
                    /\ s.data = all_comments_data
                    /\ s.flat = all_comments_flat
                    /\ s.keys = data_keys
                    /\ s.files = files
                    /\ s.title = note_id_to_title
                    /\ s.task[h].pc = "empty"

\* a handler found nothing in its body while the item has records and files
C9_Witness ==
    /\ \E h \in Tasks : task[h].pc = "empty"
    /\ NestedOf("n1") # <<>>
    /\ files # <<>>

\* the rows of the flat output for the top-level entries from i on:
\* <<comment_id, parent_comment_id, is_sub_comment>>
RECURSIVE FlatShape(_, _)
FlatShape(comments_list, i) ==
    IF i > Len(comments_list) THEN <<>>
    ELSE LET c == comments_list[i]
             subs == Get(c, "sub_comments", <<>>)
         IN <<<<Get(c, "id", ""), "", FALSE>>>>
                \o [j \in DOMAIN subs |-> <<Get(subs[j], "id", ""), Get(c, "id", ""), TRUE>>]
                \o FlatShape(comments_list, i + 1)

\* C10: for a successful body the nested output has one record per
\* top-level entry with one record per reply, the flat output has one
\* record per top-level entry followed by one per reply, in body order, and
\* every flat record carries the note_id of the call
C10_OutputShape ==
    (parse_call.pc = "return" /\ ~Unsuccessful(parse_call.response_data)) =>
        LET comments_list == parse_call.response_data.data.comments
            nested == parse_call.nested
            flat == parse_call.flat
        IN /\ Len(nested) = Len(comments_list)
           /\ \A i \in DOMAIN nested :
                LET subs == Get(comments_list[i], "sub_comments", <<>>) IN
                /\ nested[i].comment_id = Get(comments_list[i], "id", "")
                /\ Len(nested[i].sub_comments) = Len(subs)
                /\ \A j \in DOMAIN subs :
                        nested[i].sub_comments[j].comment_id = Get(subs[j], "id", "")
           /\ [k \in DOMAIN flat |->
                    <<flat[k].comment_id, flat[k].parent_comment_id,
                      flat[k].is_sub_comment>>] = FlatShape(comments_list, 1)
           /\ \A k \in DOMAIN flat : flat[k].note_id = parse_call.note_id

\* the display name the parser is to give an entry: the nickname of its
\* author object, '' when the object is missing or is not a mapping
DefaultedNickname(e) ==
    IF "user_info" \in DOMAIN e /\ e.user_info # JsonNull /\ "nickname" \in DOMAIN e.user_info
    THEN e.user_info.nickname
    ELSE ""

\* the entries of a body: top-level entries and replies
EntryCount(comments_list) ==
    LET count[i \in 0..Len(comments_list)] ==
            IF i = 0 THEN 0
            ELSE count[i - 1] + 1 + Len(Get(comments_list[i], "sub_comments", <<>>))
    IN count[Len(comments_list)]

\* C11: the call returns, and for a successful body every top-level entry
\* and every reply has its record in the nested output, with the display
\* name defaulted where the author object is not a mapping, and its row in
\* the flat output
C11_DefensiveParsing ==
    (parse_call.pc = "return" /\ ~Unsuccessful(parse_call.response_data)) =>
        LET comments_list == parse_call.response_data.data.comments
            nested == parse_call.nested
        IN /\ \A i \in DOMAIN comments_list :
                /\ i \in DOMAIN nested
                /\ nested[i].nickname = DefaultedNickname(comments_list[i])
                /\ \A j \in DOMAIN Get(comments_list[i], "sub_comments", <<>>) :
                        /\ j \in DOMAIN nested[i].sub_comments
                        /\ nested[i].sub_comments[j].nickname
                                = DefaultedNickname(comments_list[i].sub_comments[j])
           /\ Len(parse_call.flat) = EntryCount(comments_list)

\* the first position of a top-level identifier in a parsed batch
FirstOccurrence(nested_comments, id) ==
    CHOOSE i \in DOMAIN nested_comments :
        /\ nested_comments[i].comment_id = id
        /\ \A m \in DOMAIN nested_comments : nested_comments[m].comment_id = id => i <= m

\* the identifiers a parsed batch holds only in the reply lists of the later
\* occurrences of a repeated top-level identifier
LaterOnlyIds(nested_comments) ==
    LET later == {i \in DOMAIN nested_comments :
                    i # FirstOccurrence(nested_comments, nested_comments[i].comment_id)}
    IN UNION {IdsOfNested(<<nested_comments[i]>>) : i \in later}
            \ UNION {IdsOfNested(<<nested_comments[i]>>) : i \in DOMAIN nested_comments \ later}

\* the top-level identifiers that occur more than once in a parsed batch
RepeatedIds(nested_comments) ==
    {nested_comments[i].comment_id :
        i \in {i \in DOMAIN nested_comments :
                  i # FirstOccurrence(nested_comments, nested_comments[i].comment_id)}}

NotApplicable(url) == ~url.comment_api \/ url.note_id = "" \/ url.rest # ""

\* C13: a handler started for a URL that is not applicable goes no further
\* than the filter, and the step changes no dict, no metadata map and no
\* file; a handler that the filter stopped stays stopped
C13_FilterFrame ==
    [][\A h \in Tasks :
            /\ task[h].pc = "filtered" => task'[h] = task[h]
            /\ \A url \in UrlsOf(NoteIds) :
                    (task[h].pc = "none" /\ task'[h] = filter_response(url)
                        /\ NotApplicable(url))
                        => /\ task'[h].pc = "filtered"
                           /\ UNCHANGED <<all_comments_data, all_comments_flat, data_keys,
                                          note_id_to_title, note_id_to_page,
                                          note_id_to_index, files, json_done,
                                          parse_call>>]_vars

\* the per-item files of a note hold its lists: the structured file its
\* nested list and the table its flat list, under the name made of the
\* recorded ordinal (1 when none is recorded) and the recorded title (note_
\* and the identifier when none is recorded)
PersistedItem(note_id) ==
    LET title == Get(note_id_to_title, note_id, <<>>)
        page_title == IF title = <<>> THEN <<"note_", note_id>> ELSE title
        json == <<Get(note_id_to_index, note_id, 1), sanitize_filename(page_title),
                  note_id, "json">>
        csv == <<Get(note_id_to_index, note_id, 1), sanitize_filename(page_title),
                 note_id, "csv">>
    IN /\ note_id \in DOMAIN all_comments_data
       /\ json \in DOMAIN files /\ files[json] = all_comments_data[note_id]
       /\ csv \in DOMAIN files
       /\ Len(files[csv]) = Len(all_comments_flat[note_id]) + 1
       /\ \A k \in DOMAIN all_comments_flat[note_id] :
                files[csv][k + 1] = csv_row(all_comments_flat[note_id][k])

\* C14: a handler that merges a body for a note, registered by the opening
\* of its link or not, is not stopped for want of the registration: when the
\* files of the note and the aggregate files can be written it does not end
\* in an error, and when it has saved, the note has an ItemState that gained
\* records and the per-item files hold the lists of the note
C14_LazyItemState ==
    [][\A h \in Tasks :
            LET n == task[h].note_id IN
            /\ (task[h].pc = "ready" /\ n \notin unwritable /\ "all" \notin unwritable)
                    => task'[h].pc # "failed"
            /\ (task[h].pc = "ready" /\ task'[h].pc \in {"saved", "save_title"})
                    => /\ n \in DOMAIN all_comments_data'
                       /\ Len(all_comments_data'[n]) > Len(NestedOf(n))
            /\ (task[h].pc \in {"ready", "save_title"} /\ task'[h].pc = "saved")
                    => PersistedItem(n)']_vars

\* a handler has saved the records of a note that no link registered, into
\* an ItemState that the handler created, while another note is registered
C14_Witness ==
    /\ note_id_to_page # {}
    /\ \E h \in Tasks :
            /\ task[h].pc = "saved"
            /\ task[h].note_id \notin note_id_to_page
            /\ task[h].note_id \notin DOMAIN note_id_to_index
            /\ PersistedItem(task[h].note_id)
            /\ \A g \in Tasks \ {h} : task[g].note_id # task[h].note_id

\* the lists of the items one after the other, in the order of the keys
RECURSIVE ConcatItems(_, _)
ConcatItems(keys, lists) ==
    IF keys = <<>> THEN <<>>
    ELSE lists[Head(keys)] \o ConcatItems(Tail(keys), lists)

\* the aggregate files hold the lists of all the items: the structured file
\* the nested lists one after the other, and the table a header row and one
\* row for each flat record
PersistedAll ==
    LET all_nested == ConcatItems(data_keys, all_comments_data)
        all_flat == ConcatItems(data_keys, all_comments_flat)
    IN /\ <<0, <<"All CommentData">>, "", "json">> \in DOMAIN files
       /\ files[<<0, <<"All CommentData">>, "", "json">>] = all_nested
       /\ <<0, <<"All CommentData">>, "", "csv">> \in DOMAIN files
       /\ Len(files[<<0, <<"All CommentData">>, "", "csv">>]) = Len(all_flat) + 1
       /\ \A k \in DOMAIN all_flat :
                files[<<0, <<"All CommentData">>, "", "csv">>][k + 1] = csv_row(all_flat[k])

\* C15: when a handler that appended records ends, the per-item files of
\* its note hold the lists of the note as they are then, if those files can
\* be written, and the aggregate files hold the lists of all the items as
\* they are then, if the aggregate files can be written, whatever became of
\* the per-item write
C15_FlushOnUpdate ==
    [][\A h \in Tasks :
            (task[h].pc \in {"ready", "save_title"} /\ task'[h].pc \in {"saved", "failed"})
                => /\ task[h].note_id \notin unwritable
                        => PersistedItem(task[h].note_id)'
                   /\ "all" \notin unwritable => PersistedAll']_vars

\* C16: on every tick of the timer of the monitor loop, whenever an
\* ItemState exists and the aggregate files can be written, the aggregate
\* files are written and hold the lists of all the items, whether or not a
\* response was handled since the tick before
C16_PeriodicWrite ==
    [][(main.pc = "tick" /\ main'.pc # "tick" /\ data_keys # <<>>
            /\ "all" \notin unwritable)
            => PersistedAll']_vars

\* the record with this identifier is in the per-item files of the note,
\* under the name that the recorded ordinal and title give, and in the
\* aggregate files
RecordInFiles(note_id, id) ==
    LET title == Get(note_id_to_title, note_id, <<>>)
        page_title == IF title = <<>> THEN <<"note_", note_id>> ELSE title
        json == <<Get(note_id_to_index, note_id, 1), sanitize_filename(page_title),
                  note_id, "json">>
        csv == <<Get(note_id_to_index, note_id, 1), sanitize_filename(page_title),
                 note_id, "csv">>
        all_json == <<0, <<"All CommentData">>, "", "json">>
        all_csv == <<0, <<"All CommentData">>, "", "csv">>
    IN /\ {json, csv, all_json, all_csv} \subseteq DOMAIN files
       /\ id \in IdsOfNested(files[json])
       /\ \E k \in 2..Len(files[csv]) : files[csv][k][5] = note_id /\ files[csv][k][6] = id
       /\ \E k \in DOMAIN files[all_json] :
                id \in IdsOfNested(<<files[all_json][k]>>)
                    /\ files[all_json][k] \in Range(NestedOf(note_id))
       /\ \E k \in 2..Len(files[all_csv]) :
                files[all_csv][k][5] = note_id /\ files[all_csv][k][6] = id

\* C17: when no write fails and the handlers and the timer are scheduled
\* fairly, every record accepted into the ItemState of a note comes to be
\* in the per-item files of the note and in the aggregate files, and from
\* then on stays in them
C17_EventualPersistence ==
    \A n \in NoteIds : \A id \in TopIds \cup ReplyIds :
        (id \in IdsOfFlat(FlatOf(n))) ~> [](RecordInFiles(n, id))

\* a handler that appended a record awaits the title of the page before it
\* writes: the record is in the ItemState and in no file yet
C17_Witness ==
    \E h \in Tasks :
        /\ task[h].pc = "save_title"
        /\ \E id \in IdsOfFlat(FlatOf(task[h].note_id)) :
                ~RecordInFiles(task[h].note_id, id)

\* an aggregate file as it is now: no file, or its content
Aggregate(ext) ==
    IF <<0, <<"All CommentData">>, "", ext>> \in DOMAIN files
    THEN <<files[<<0, <<"All CommentData">>, "", ext>>]>>
    ELSE <<>>

\* the number of flat records of the items
RECURSIVE FlatTotal(_)
FlatTotal(keys) ==
    IF keys = <<>> THEN 0
    ELSE Len(all_comments_flat[Head(keys)]) + FlatTotal(Tail(keys))

\* C18: every step that creates or changes an aggregate file leaves in the
\* structured file the nested lists of the items one after the other, and in
\* the table the flat lists of the items one after the other, both in the
\* order in which the ItemStates were created; the table has as many rows
\* as the items have flat records, and every row and every nested record
\* is a record of an ItemState
C18_AggregateUnion ==
    [][(Aggregate("json")' # Aggregate("json") \/ Aggregate("csv")' # Aggregate("csv"))
            => /\ PersistedAll'
               /\ Len(Aggregate("csv")'[1]) = FlatTotal(data_keys)' + 1
               /\ \A k \in 2..Len(Aggregate("csv")'[1]) :
                    \E n \in DOMAIN all_comments_flat' :
                        \E j \in DOMAIN all_comments_flat'[n] :
                            Aggregate("csv")'[1][k] = csv_row(all_comments_flat'[n][j])
               /\ \A k \in DOMAIN Aggregate("json")'[1] :
                    \E n \in DOMAIN all_comments_data' :
                        Aggregate("json")'[1][k] \in Range(all_comments_data'[n])]_vars

\* the aggregate files hold two items, the note created first is not the
\* first of the identifiers, and the items have 2 and 1 flat records
C18_Witness ==
    /\ data_keys = <<"n2", "n1">>
    /\ Len(all_comments_flat["n2"]) = 2 /\ Len(all_comments_flat["n1"]) = 1
    /\ PersistedAll
    /\ Len(Aggregate("csv")[1]) = 4

\* C19: a write that fails ends neither the handler's process nor the
\* monitor loop: a handler that fails in its writes leaves main where it
\* is, and main goes from every tick back to the sleep of the loop, from
\* where later ticks and the final flush follow
C19_WriteFailuresContained ==
    [][/\ \A h \in Tasks :
            (task[h].pc # "failed" /\ task'[h].pc = "failed") => main' = main
       /\ (main.pc = "tick" /\ main'.pc # "tick") => main'.pc = "sleep"]_vars

\* C20: when the final flush runs from its first item to its end, every
\* item that has records and whose files can be written has its lists in
\* its per-item files, and the aggregate files, if they can be written, hold
\* the lists of all the items, whether or not the write of some item failed
C20_FinalFlushBestEffort ==
    [][(main.pc = "sleep" /\ main'.pc = "closing" /\ data_keys # <<>>)
            => /\ \A n \in DOMAIN all_comments_data :
                    (n \notin unwritable /\ all_comments_data[n] # <<>>)
                        => PersistedItem(n)'
               /\ ("all" \notin unwritable
                        /\ \E n \in DOMAIN all_comments_data : all_comments_data[n] # <<>>)
                    => PersistedAll']_vars

\* C21: main goes on to close the browser, with ItemStates accumulated,
\* only out of the final flush: an interrupt, wherever it arrives, is
\* followed by the flush of lines 794-808 before the browser is closed
C21_ShutdownFlush ==
    [][(main.pc # "closing" /\ main'.pc = "closing" /\ data_keys # <<>>)
            => main.pc \in {"sleep", "flush_title"}]_vars

\* C22: a handler that fails leaves main and every other handler task as
\* they are, and a handler that resumes with its body, whatever failed
\* before it, parses and merges the body into the lists of its note
C22_EventIsolation ==
    [][\A h \in Tasks :
            /\ (task[h].pc # "failed" /\ task'[h].pc = "failed")
                    => /\ main' = main
                       /\ \A g \in Tasks \ {h} : task'[g] = task[g]
            /\ (task[h].pc = "ready" /\ task'[h].pc # "ready")
                    => \E b \in RunBodies :
                            /\ all_comments_data' = Merged(task[h].note_id, b).data
                            /\ all_comments_flat' = Merged(task[h].note_id, b).flat
                            /\ data_keys' = Merged(task[h].note_id, b).keys]_vars

\* the handler of the first response failed in its writes, and the handler
\* of the second response has since merged and saved the records of another
\* note, while main runs on
C22_Witness ==
    /\ task[1].pc = "failed" /\ task[2].pc = "saved"
    /\ data_keys = <<task[1].note_id, task[2].note_id>>
    /\ PersistedItem(task[2].note_id)
    /\ main.pc \in {"open", "sleep", "tick"}

\* the items that have records, in the order of their creation
NonEmptyKeys == SelectSeq(data_keys, LAMBDA n : all_comments_data[n] # <<>>)

\* C23: an item with no ItemState or with no records has no per-item file,
\* whatever called the per-item writer for it; a final flush that meets such
\* an item, even one whose files could not be written, goes on to the
\* aggregate write; and every step that creates or changes an aggregate
\* file leaves in it exactly the records of the items that have records
C23_ZeroRecordTolerance ==
    [][/\ \A n \in NoteIds :
            NestedOf(n)' = <<>> => \A name \in DOMAIN files' : name[3] # n
       /\ (main.pc = "sleep" /\ main'.pc = "closing"
                /\ "all" \notin unwritable /\ NonEmptyKeys # <<>>
                /\ \A k \in DOMAIN NonEmptyKeys : NonEmptyKeys[k] \notin unwritable)
            => PersistedAll'
       /\ (Aggregate("json")' # Aggregate("json") \/ Aggregate("csv")' # Aggregate("csv"))
            => /\ Aggregate("json")' = <<ConcatItems(NonEmptyKeys, all_comments_data)'>>
               /\ Len(Aggregate("csv")'[1])
                    = Len(ConcatItems(NonEmptyKeys, all_comments_flat)') + 1]_vars

\* the final flush has run over two items: the first has an ItemState
\* without records and files that cannot be written, the second has its
\* records in its files and in the aggregate files
C23_Witness ==
    /\ main.pc = "closing" /\ main.size = 2 /\ Len(data_keys) = 2
    /\ all_comments_data[data_keys[1]] = <<>>
    /\ data_keys[1] \in unwritable
    /\ PersistedItem(data_keys[2])
    /\ PersistedAll

\* C24: for every item, every reply row of the flat list names as its
\* parent a top-level record of the nested list that has the reply among
\* its replies
C24_ParentLinkage ==
    \A n \in DOMAIN all_comments_flat :
        \A k \in DOMAIN all_comments_flat[n] :
            all_comments_flat[n][k].is_sub_comment
                => \E j \in DOMAIN all_comments_data[n] :
                        /\ all_comments_data[n][j].comment_id
                                = all_comments_flat[n][k].parent_comment_id
                        /\ \E i \in DOMAIN all_comments_data[n][j].sub_comments :
                                all_comments_data[n][j].sub_comments[i].comment_id
                                    = all_comments_flat[n][k].comment_id

\* C25: the per-item files of a note are one structured file and one table:
\* no two files of a note with the same extension differ in ordinal or
\* title, and the ordinal of the files of a note of the URL list is the
\* position of its link in the list
C25_OneFilePair ==
    \A f \in DOMAIN files :
        /\ \A g \in DOMAIN files :
                (f[3] # "" /\ f[3] = g[3] /\ f[4] = g[4]) => f = g
        /\ \A k \in DOMAIN UrlList : f[3] = UrlList[k] => f[1] = k

\* a body cut before the top-level entry at which its parse aborts
CutBody(b, note_id) ==
    SuccessBody(SubSeq(b.data.comments, 1,
                       Len(parse_comment_response(b, note_id)[1])))

\* the parse of the body aborts at a top-level entry
Aborts(b, note_id) ==
    Len(parse_comment_response(b, note_id)[1]) < Len(b.data.comments)

\* the bodies whose parse aborts at a top-level entry, each with its cut body
\* (where the parse aborts does not depend on the note)
AbortingBodies ==
    {<<b, CutBody(b, "n1")>> : b \in {c \in RaisingBodies : Aborts(c, "n1")}}

\* C26: whenever a handler is queued to merge a body whose parse aborts at a
\* top-level entry, the merge leaves the lists of the note as the merge of
\* the entries before that entry leaves them: those entries are in the
\* nested list, no row of the aborted entry is in the flat list, and the
\* identifiers of the two lists are the same
C26_PartialParse ==
    \A n \in ReadyNotes, p \in AbortingBodies :
        LET whole == Merged(n, p[1])
            cut == Merged(n, p[2])
            nested == Get(whole.data, n, <<>>)
            flat == Get(whole.flat, n, <<>>)
        IN /\ nested = Get(cut.data, n, <<>>)
           /\ flat = Get(cut.flat, n, <<>>)
           /\ \A k \in DOMAIN p[2].data.comments :
                 p[2].data.comments[k].id \in IdsOfNested(nested)
           /\ IdsOfNested(nested) = IdsOfFlat(flat)

\* a handler is queued to merge into an item that has records, and some
\* body aborts at its second entry after the parser emitted a row for a
\* reply of that entry, while its first entry is new with a reply of the
\* same identifier
C26_Witness ==
    /\ task[1].pc = "saved" /\ task[2].pc = "ready"
    /\ NestedOf(task[2].note_id) # <<>>
    /\ \E b \in RaisingBodies :
            LET p == parse_comment_response(b, task[2].note_id) IN
            /\ Len(p[1]) = 1 /\ Len(p[2]) = 4
            /\ p[2][2].comment_id = p[2][4].comment_id
            /\ Merged(task[2].note_id, b).outcome = "appended"

====
